---- MODULE Spec2Model ----
(***************************************************************************)
(* dynamo-tx-stats: main.go as a state machine.                            *)
(*                                                                         *)
(* The program parses its arguments, dedupes the wallet names, fetches     *)
(* every wallet's transactions, aggregates the generated ones into a       *)
(* period accumulator, reportDays daily accumulators and 24 hourly ones,   *)
(* and prints the report.                                                  *)
(*                                                                         *)
(* Time is in unix seconds; time.Local is a fixed-offset zone (UTC), so a  *)
(* day has 24 hours.  float64 is a binary float of MantBits bits whose     *)
(* addition rounds to nearest, ties to even; amounts are whole multiples   *)
(* of the smallest amount.  Block heights are far from the int64 limits.   *)
(* The URL argument parses, and StatData.duration, which nothing writes,   *)
(* is left out.                                                            *)
(***************************************************************************)
EXTENDS Integers, Sequences, FiniteSets, TLC

VARIABLES
    pc,           \* where main() is: "args", "dedupe", "fetch", "loop", or how
                  \* it ended: "done", "usage" (exit 1), "exit2", "panic";
                  \* "stat" while a lone StatData is exercised
    reportDays,   \* strconv.Atoi(os.Args[4]), 0 when it does not parse
    args,         \* os.Args[5:], the wallet names as given
    wallets,      \* the variable wallets of main
    requests,     \* the wallet names POSTed for so far, in order
    txList,       \* the merged transactions
    now,          \* time.Now() of line 126
    reportStats,  \* StatData of the period
    dailyStats,   \* []StatData, index 0..reportDays-1
    hourlyStats,  \* []StatData, index 0..23
    idx,          \* number of elements of txList the loop has finished
    out           \* what was printed

vars == <<pc, reportDays, args, wallets, requests, txList, now, reportStats,
          dailyStats, hourlyStats, idx, out>>

-----------------------------------------------------------------------------
(* Bounds of the model *)

MaxArgs == 2          \* wallet names on the command line
MaxTx == 3            \* transactions over all wallets
MaxReportDays == 3    \* largest <report days> argument
MaxHeight == 2        \* largest block height given to a lone StatData
MantBits == 3         \* bits of the float mantissa (53 in float64)

(* Program constants *)

MinReportDays == 2    \* "Reporting days must be at least 2"
MinConfirmations == 2
HoursPerDay == 24
SecondsPerHour == 3600
SecondsPerMinute == 60
MinutesPerHour == 60
ZeroTime == -1        \* the zero time.Time of a tx whose dt is not set yet

SecondsPerDay == SecondsPerHour * HoursPerDay

WalletIds == {"w1", "w2"}

-----------------------------------------------------------------------------
(* float64 *)

RECURSIVE Pow2(_)
Pow2(n) == IF n = 0 THEN 1 ELSE 2 * Pow2(n - 1)

\* the spacing of the floats around x >= 0
RECURSIVE Quantum(_, _)
Quantum(x, q) == IF x < q * Pow2(MantBits) THEN q ELSE Quantum(x, 2 * q)

\* x >= 0 rounded to the nearest float, ties to the even mantissa
Round(x) ==
    LET q == Quantum(x, 1)
        lo == (x \div q) * q
        r == x - lo
    IN  IF 2 * r < q THEN lo
        ELSE IF 2 * r > q THEN lo + q
        ELSE IF (lo \div q) % 2 = 0 THEN lo ELSE lo + q

\* a + b in float64
FAdd(a, b) == Round(a + b)

\* a / b in float64, b = [num, den] a fraction: the quotient as a fraction, or
\* what IEEE 754 gives for a zero divisor
FDiv(a, b) ==
    IF b.num = 0
    THEN [kind |-> IF a = 0 THEN "NaN" ELSE "Inf", num |-> a, den |-> 0]
    ELSE [kind |-> "finite", num |-> a * b.den, den |-> b.num]

-----------------------------------------------------------------------------
(* time *)

Hour(t) == (t % SecondsPerDay) \div SecondsPerHour
Minute(t) == (t % SecondsPerHour) \div SecondsPerMinute
Second(t) == t % SecondsPerMinute

\* getDay: midnight of t's day
getDay(t) == t - (t % SecondsPerDay)

-----------------------------------------------------------------------------
(* StatData *)

ZeroStat == [firstBlock |-> 0, lastBlock |-> 0, coins |-> 0, blocks |-> 0]

\* record with the lastBlock comparison turned around
recordLastBelow(s, tx) ==
    [firstBlock |-> IF s.firstBlock = 0 \/ tx.Blockheight < s.firstBlock
                    THEN tx.Blockheight ELSE s.firstBlock,
     lastBlock  |-> IF tx.Blockheight < s.lastBlock
                    THEN tx.Blockheight ELSE s.lastBlock,
     coins      |-> FAdd(s.coins, tx.Amount),
     blocks     |-> s.blocks + 1]

\* StatData.record
record(s, tx) ==
    [firstBlock |-> IF s.firstBlock = 0 \/ tx.Blockheight < s.firstBlock
                    THEN tx.Blockheight ELSE s.firstBlock,
     lastBlock  |-> IF tx.Blockheight > s.lastBlock
                    THEN tx.Blockheight ELSE s.lastBlock,
     coins      |-> FAdd(s.coins, tx.Amount),
     blocks     |-> s.blocks + 1]

\* StatData.roughPercent: 100 * blocks / (lastBlock - firstBlock + 1), as a
\* fraction; divided tells whether the division was evaluated
roughPercent(s) ==
    IF s.blocks = 0
    THEN [divided |-> FALSE, num |-> 0, den |-> 1]
    ELSE [divided |-> TRUE, num |-> 100 * s.blocks,
          den |-> s.lastBlock - s.firstBlock + 1]

-----------------------------------------------------------------------------
(* main: arguments, wallets, fetches *)

SeqsUpTo(S, n) == UNION {[1..k -> S] : k \in 0..n}

Range(f) == {f[k] : k \in DOMAIN f}

\* every order in which a range over the map can yield the keys
Orderings(S) ==
    {f \in [1..Cardinality(S) -> S] : \A a, b \in DOMAIN f : a # b => f[a] # f[b]}

\* no deduping: the list as given
dedupeKeepsAll(ws) == {ws}

\* lines 100-108: the wallet lists the map-and-rewrite can give
dedupe(ws) == Orderings(Range(ws))

\* lines 86-97: the message usage() is called with, "" when the arguments pass
usageMessage(nWallets, rd) ==
    IF nWallets < 1 THEN "Not enough args"
    ELSE IF rd = 0 THEN "Invalid reporting days value"
    ELSE IF rd < MinReportDays THEN "Reporting days must be at least 2"
    ELSE ""

Tx(gen, conf, height, amount, t) ==
    [Generated |-> gen, Confirmations |-> conf, Blockheight |-> height,
     Amount |-> amount, TimeReceived |-> t, dt |-> ZeroTime]

\* The clock and the transactions the wallets hold.  The report runs on day
\* 10 after the epoch, at 00:00:00, 01:00:00 or 01:30:15.
NowDay == 10 * SecondsPerDay
NowChoices == {NowDay, NowDay + SecondsPerHour, NowDay + SecondsPerHour + 1815}

\* the smallest amount whose sum with 1 is not a float
BigAmount == Pow2(MantBits)

\* midnight MaxReportDays-1 days ago: the start of the longest period, and
\* before the start of every shorter one
OldestStart == NowDay - (MaxReportDays - 1) * SecondsPerDay

TxToday     == Tx(TRUE, MinConfirmations, 0, 1, NowDay + SecondsPerHour + 5)
TxOldest    == Tx(TRUE, MinConfirmations, 2, BigAmount, OldestStart)
TxYesterday == Tx(TRUE, MinConfirmations + 3, 1, 1, NowDay - SecondsPerDay + 2 * SecondsPerHour)
TxSent      == Tx(FALSE, MinConfirmations, 1, 1, NowDay + SecondsPerHour + 5)
TxFresh     == Tx(TRUE, MinConfirmations - 1, 1, 1, NowDay + SecondsPerHour + 5)
TxTomorrow  == Tx(TRUE, MinConfirmations, 1, 1, NowDay + SecondsPerDay)

TxChoices == {TxToday, TxOldest, TxYesterday, TxSent, TxFresh, TxTomorrow}

NoOutput == [printed |-> "nothing"]

Init ==
    /\ pc = "args"
    /\ reportDays \in 0..MaxReportDays
    /\ args \in SeqsUpTo(WalletIds, MaxArgs)
    /\ wallets = <<>>
    /\ requests = <<>>
    /\ txList = <<>>
    /\ now = ZeroTime
    /\ reportStats = ZeroStat
    /\ dailyStats = <<>>
    /\ hourlyStats = <<>>
    /\ idx = 0
    /\ out = NoOutput

\* lines 86-97, an argument is refused: usage() exits with status 1
Usage ==
    /\ pc = "args"
    /\ usageMessage(Len(args), reportDays) # ""
    /\ pc' = "usage"
    /\ out' = [printed |-> "usage", message |-> usageMessage(Len(args), reportDays)]
    /\ UNCHANGED <<reportDays, args, wallets, requests, txList, now, reportStats,
                   dailyStats, hourlyStats, idx>>

\* lines 86-98, the arguments pass
ParseArgs ==
    /\ pc = "args"
    /\ usageMessage(Len(args), reportDays) = ""
    /\ wallets' = args
    /\ pc' = "dedupe"
    /\ UNCHANGED <<reportDays, args, requests, txList, now, reportStats,
                   dailyStats, hourlyStats, idx, out>>

\* lines 100-115
Dedupe ==
    /\ pc = "dedupe"
    /\ wallets' \in dedupe(wallets)
    /\ pc' = "fetch"
    /\ UNCHANGED <<reportDays, args, requests, txList, now, reportStats,
                   dailyStats, hourlyStats, idx, out>>

\* lines 117-119 with fetchTX returning: one wallet's transactions are appended
FetchOK ==
    /\ pc = "fetch"
    /\ Len(requests) < Len(wallets)
    /\ \E r \in SeqsUpTo(TxChoices, MaxTx - Len(txList)) :
          txList' = txList \o r
    /\ requests' = Append(requests, wallets[Len(requests) + 1])
    /\ UNCHANGED <<pc, reportDays, args, wallets, now, reportStats,
                   dailyStats, hourlyStats, idx, out>>

\* lines 76-80: the POST fails and fetchTX exits with status 2
FetchFail ==
    /\ pc = "fetch"
    /\ Len(requests) < Len(wallets)
    /\ requests' = Append(requests, wallets[Len(requests) + 1])
    /\ pc' = "exit2"
    /\ out' = [printed |-> "Unable to POST"]
    /\ UNCHANGED <<reportDays, args, wallets, txList, now, reportStats,
                   dailyStats, hourlyStats, idx>>

-----------------------------------------------------------------------------
(* main: the aggregation loop *)

\* line 132: time.Unix(sec, 0)
Unix(sec) == sec

\* lines 127-129: beginReport for time.Now() = n
beginReport(n, rd) == getDay(n) - (rd - 1) * HoursPerDay * SecondsPerHour

\* the filter without the confirmations check
skippedUnlessConfirmed(tx, begin) ==
    \/ ~tx.Generated
    \/ tx.dt < begin

\* lines 134-143: the loop's three `continue` conditions
skipped(tx, begin) ==
    \/ ~tx.Generated
    \/ tx.Confirmations < MinConfirmations
    \/ tx.dt < begin

\* line 147: int(tx.dt.Sub(beginReport) / time.Hour / 24)
dayIndex(tx, begin) == ((tx.dt - begin) \div SecondsPerHour) \div HoursPerDay

\* lines 123-125
ZeroStats(rd) ==
    [reportStats |-> ZeroStat,
     dailyStats  |-> [d \in 0..(rd - 1) |-> ZeroStat],
     hourlyStats |-> [h \in 0..(HoursPerDay - 1) |-> ZeroStat],
     panicked    |-> FALSE]

\* the loop body with the daily record moved inside the `today` branch
loopBodyTodayOnly(st, tx, begin, rd) ==
    IF skipped(tx, begin) THEN st
    ELSE LET d == dayIndex(tx, begin)
             period == record(st.reportStats, tx)
         IN  IF d \notin DOMAIN st.dailyStats
             THEN [st EXCEPT !.reportStats = period, !.panicked = TRUE]
             ELSE IF d = rd - 1
             THEN [st EXCEPT
                     !.reportStats = period,
                     !.dailyStats[d] = record(@, tx),
                     !.hourlyStats[Hour(tx.dt)] = record(@, tx)]
             ELSE [st EXCEPT !.reportStats = period]

\* lines 134-152 for one tx whose dt is set: the accumulators after it.  An
\* index outside dailyStats panics after reportStats has recorded the tx.
loopBody(st, tx, begin, rd) ==
    IF skipped(tx, begin) THEN st
    ELSE LET d == dayIndex(tx, begin)
             period == record(st.reportStats, tx)
         IN  IF d \notin DOMAIN st.dailyStats
             THEN [st EXCEPT !.reportStats = period, !.panicked = TRUE]
             ELSE [st EXCEPT
                     !.reportStats = period,
                     !.dailyStats[d] = record(@, tx),
                     !.hourlyStats =
                        IF d = rd - 1
                        THEN [@ EXCEPT ![Hour(tx.dt)] = record(@, tx)]
                        ELSE @]

Stats == [reportStats |-> reportStats, dailyStats |-> dailyStats,
          hourlyStats |-> hourlyStats, panicked |-> pc = "panic"]

\* lines 122-129: every wallet is fetched; the count is printed, the
\* accumulators are made and the clock is read
StartReport ==
    /\ pc = "fetch"
    /\ Len(requests) = Len(wallets)
    /\ now' \in NowChoices
    /\ reportStats' = ZeroStats(reportDays).reportStats
    /\ dailyStats' = ZeroStats(reportDays).dailyStats
    /\ hourlyStats' = ZeroStats(reportDays).hourlyStats
    /\ out' = [printed |-> "count", transactions |-> Len(txList)]
    /\ pc' = "loop"
    /\ UNCHANGED <<reportDays, args, wallets, requests, txList, idx>>

\* lines 131-153, one iteration
LoopTx ==
    /\ pc = "loop"
    /\ idx < Len(txList)
    /\ LET tx == [txList[idx + 1] EXCEPT !.dt = Unix(txList[idx + 1].TimeReceived)]
           st == loopBody(Stats, tx, beginReport(now, reportDays), reportDays)
       IN  /\ txList' = [txList EXCEPT ![idx + 1] = tx]
           /\ reportStats' = st.reportStats
           /\ dailyStats' = st.dailyStats
           /\ hourlyStats' = st.hourlyStats
           /\ pc' = IF st.panicked THEN "panic" ELSE "loop"
           /\ idx' = IF st.panicked THEN idx ELSE idx + 1
    /\ UNCHANGED <<reportDays, args, wallets, requests, now, out>>

-----------------------------------------------------------------------------
(* main: the report *)

Whole(n) == [num |-> n, den |-> 1]

\* line 169: float64(now.Hour()) + float64(now.Minute())/60.0, in hours
elapsedHours(n) ==
    [num |-> Hour(n) * MinutesPerHour + Minute(n), den |-> MinutesPerHour]

\* line 181: float64(now.Minute()) + float64(now.Second())/60, in minutes
elapsedMinutes(n) ==
    [num |-> Minute(n) * SecondsPerMinute + Second(n), den |-> SecondsPerMinute]

\* f * k for a quotient f of FDiv
FMul(f, k) == IF f.kind = "finite" THEN [f EXCEPT !.num = @ * k] ELSE f

\* lines 164-172: the line of day i
dayLine(i, n, rd, daily) ==
    LET coins == daily[i].coins
        hours == IF i = rd - 1 THEN elapsedHours(n) ELSE Whole(HoursPerDay)
    IN  [coins |-> coins,
         divisor |-> hours,
         rate |-> FDiv(coins, hours),
         percent |-> roughPercent(daily[i]),
         projected |-> i = rd - 1,
         projection |-> IF i = rd - 1
                        THEN FMul(FDiv(coins, hours), HoursPerDay)
                        ELSE Whole(0)]

\* lines 176-184: the line of hour i
hourLine(i, n, hourly) ==
    LET coins == hourly[i].coins
        minutes == IF i = Hour(n) THEN elapsedMinutes(n) ELSE Whole(MinutesPerHour)
    IN  [coins |-> coins,
         divisor |-> minutes,
         rate |-> FDiv(coins, minutes),
         projected |-> i = Hour(n),
         projection |-> IF i = Hour(n)
                        THEN FMul(FDiv(coins, minutes), MinutesPerHour)
                        ELSE Whole(0)]

\* line 155: txList[0] of an empty list is out of range, the program panics
PanicEmpty ==
    /\ pc = "loop"
    /\ idx = Len(txList)
    /\ Len(txList) = 0
    /\ pc' = "panic"
    /\ UNCHANGED <<reportDays, args, wallets, requests, txList, now, reportStats,
                   dailyStats, hourlyStats, idx, out>>

\* lines 155-185
PrintReport ==
    /\ pc = "loop"
    /\ idx = Len(txList)
    /\ Len(txList) > 0
    /\ out' = [printed |-> "report",
               first |-> txList[1].dt,
               total |-> reportStats.coins,
               dailyAverage |-> FDiv(reportStats.coins, Whole(reportDays)),
               hourlyAverage |-> FDiv(reportStats.coins, Whole(reportDays * HoursPerDay)),
               percent |-> roughPercent(reportStats),
               days  |-> [i \in 0..(reportDays - 1) |->
                             dayLine(i, now, reportDays, dailyStats)],
               hours |-> [i \in 0..Hour(now) |-> hourLine(i, now, hourlyStats)]]
    /\ pc' = "done"
    /\ UNCHANGED <<reportDays, args, wallets, requests, txList, now, reportStats,
                   dailyStats, hourlyStats, idx>>

Next ==
    \/ Usage
    \/ ParseArgs
    \/ Dedupe
    \/ FetchOK
    \/ FetchFail
    \/ StartReport
    \/ LoopTx
    \/ PanicEmpty
    \/ PrintReport

Spec == Init /\ [][Next]_vars

-----------------------------------------------------------------------------
(* A lone StatData: record and roughPercent on any block heights *)

StatTxs ==
    {Tx(TRUE, MinConfirmations, h, a, NowDay) : h \in 0..MaxHeight, a \in {1, BigAmount}}

InitStat ==
    /\ pc = "stat"
    /\ reportDays = MinReportDays
    /\ args = <<>>
    /\ wallets = <<>>
    /\ requests = <<>>
    /\ txList = <<>>
    /\ now = ZeroTime
    /\ reportStats = ZeroStat
    /\ dailyStats = <<>>
    /\ hourlyStats = <<>>
    /\ idx = 0
    /\ out = NoOutput

\* s.record(tx); txList keeps what was recorded
StatRecord ==
    /\ pc = "stat"
    /\ Len(txList) < MaxTx
    /\ \E tx \in StatTxs :
          /\ reportStats' = record(reportStats, tx)
          /\ txList' = Append(txList, tx)
    /\ UNCHANGED <<pc, reportDays, args, wallets, requests, now, dailyStats,
                   hourlyStats, idx, out>>

\* s.roughPercent()
StatPercent ==
    /\ pc = "stat"
    /\ out' = [printed |-> "percent", blocks |-> reportStats.blocks,
               percent |-> roughPercent(reportStats)]
    /\ UNCHANGED <<pc, reportDays, args, wallets, requests, txList, now, reportStats,
                   dailyStats, hourlyStats, idx>>

NextStat == StatRecord \/ StatPercent

SpecStat == InitStat /\ [][NextStat]_vars

-----------------------------------------------------------------------------
(* What the claims speak of *)

\* midnight of today minus reportDays-1 days
PeriodStart == getDay(now) - (reportDays - 1) * SecondsPerDay

\* the acceptance filter as the specification states it
Accepted(tx) ==
    /\ tx.Generated = TRUE
    /\ tx.Confirmations >= 2
    /\ tx.TimeReceived >= PeriodStart

\* floor((timestamp - periodStart) / 24h)
DayOf(tx) == (tx.TimeReceived - PeriodStart) \div SecondsPerDay

\* the loop is about to handle txList[idx + 1]
AtTx == pc = "loop" /\ idx < Len(txList)

\* the loop stands between two iterations, or the report is printed
Aggregating == pc \in {"loop", "done"}

\* stats[lo].coins + ... + stats[hi].coins, added in float64 from the left
RECURSIVE SumCoins(_, _, _)
SumCoins(stats, lo, hi) ==
    IF hi < lo THEN 0 ELSE FAdd(SumCoins(stats, lo, hi - 1), stats[hi].coins)

\* stats[lo].coins + ... + stats[hi].coins, exactly
RECURSIVE ExactCoins(_, _, _)
ExactCoins(stats, lo, hi) ==
    IF hi < lo THEN 0 ELSE ExactCoins(stats, lo, hi - 1) + stats[hi].coins

\* the exact sum of the amounts of the accepted transactions of list
RECURSIVE AcceptedTotal(_)
AcceptedTotal(list) ==
    IF list = <<>> THEN 0
    ELSE (IF Accepted(Head(list)) THEN Head(list).Amount ELSE 0)
         + AcceptedTotal(Tail(list))

Min(S) == CHOOSE x \in S : \A y \in S : x <= y
Max(S) == CHOOSE x \in S : \A y \in S : x >= y

NoDuplicates(ws) == \A a, b \in DOMAIN ws : a # b => ws[a] # ws[b]

\* lines 131-153 run over a whole list
RECURSIVE aggregate(_, _, _, _)
aggregate(st, list, begin, rd) ==
    IF list = <<>> THEN st
    ELSE aggregate(loopBody(st, Head(list), begin, rd), Tail(list), begin, rd)

-----------------------------------------------------------------------------
(* C1 *)

\* C1: an iteration of the aggregation loop raises the count of an accumulator
\* if and only if its transaction is generated, has at least 2 confirmations
\* and was received at or after the period start; a transaction failing one of
\* the three changes no accumulator.
C1_FilterCorrectness ==
    [][AtTx =>
        LET tx == txList[idx + 1]
            counted ==
                \/ reportStats'.blocks # reportStats.blocks
                \/ \E d \in DOMAIN dailyStats : dailyStats'[d].blocks # dailyStats[d].blocks
                \/ \E h \in DOMAIN hourlyStats : hourlyStats'[h].blocks # hourlyStats[h].blocks
        IN  /\ counted <=> Accepted(tx)
            /\ ~Accepted(tx) =>
                  /\ reportStats' = reportStats
                  /\ dailyStats' = dailyStats
                  /\ hourlyStats' = hourlyStats]_vars

\* a report over a transaction with 1 confirmation, one received before the
\* period start and one that passes: only the last was counted
C1_Witness ==
    /\ pc = "done"
    /\ \E k \in DOMAIN txList :
          /\ txList[k].Generated
          /\ txList[k].Confirmations = 1
          /\ txList[k].TimeReceived >= PeriodStart
    /\ \E k \in DOMAIN txList :
          /\ txList[k].Generated
          /\ txList[k].Confirmations >= 2
          /\ txList[k].TimeReceived < PeriodStart
    /\ \E k \in DOMAIN txList : Accepted(txList[k])
    /\ reportStats.blocks = 1

-----------------------------------------------------------------------------
(* C2 *)

\* C2: an iteration on an accepted transaction records it into exactly one
\* daily bucket, the one at floor((timestamp - periodStart) / 24h), which lies
\* in 0..reportDays-1, and into the hourly bucket of its hour if and only if
\* that index is reportDays-1.
C2_BucketPartition ==
    [][(AtTx /\ Accepted(txList[idx + 1])) =>
        LET tx == txList[idx + 1]
            d == DayOf(tx)
        IN  /\ d \in 0..(reportDays - 1)
            /\ dailyStats'[d].blocks = dailyStats[d].blocks + 1
            /\ \A e \in DOMAIN dailyStats : e # d => dailyStats'[e] = dailyStats[e]
            /\ IF d = reportDays - 1
               THEN /\ hourlyStats'[Hour(tx.TimeReceived)].blocks
                          = hourlyStats[Hour(tx.TimeReceived)].blocks + 1
                    /\ \A h \in DOMAIN hourlyStats :
                          h # Hour(tx.TimeReceived) => hourlyStats'[h] = hourlyStats[h]
               ELSE hourlyStats' = hourlyStats]_vars

-----------------------------------------------------------------------------
(* C3 *)

\* C3 as stated: between iterations and at the end of the loop, the period's
\* coins are the sum of the coins of the daily accumulators, be that sum the
\* exact one or the one added in float64.
C3_SumConservation ==
    Aggregating =>
        \/ reportStats.coins = ExactCoins(dailyStats, 0, reportDays - 1)
        \/ reportStats.coins = SumCoins(dailyStats, 0, reportDays - 1)

\* C3: between iterations and at the end of the loop, the period's coins are
\* the sum of the coins of the daily accumulators, provided no float64
\* addition of the amounts can round: the accepted amounts add up to less than
\* 2^MantBits units.
C3_SumConservationExact ==
    (Aggregating /\ AcceptedTotal(txList) < Pow2(MantBits)) =>
        /\ reportStats.coins = ExactCoins(dailyStats, 0, reportDays - 1)
        /\ reportStats.coins = SumCoins(dailyStats, 0, reportDays - 1)

\* three transactions counted on two days, and no addition rounded
C3_Witness ==
    /\ pc = "done"
    /\ AcceptedTotal(txList) < Pow2(MantBits)
    /\ reportStats.blocks = 3
    /\ reportStats.coins = 3
    /\ Cardinality({d \in DOMAIN dailyStats : dailyStats[d].blocks > 0}) = 2

-----------------------------------------------------------------------------
(* C4 *)

\* C4: the accumulators at the end of the loop are those of the loop run over
\* any permutation of the list.
C4_OrderIndependent ==
    pc = "done" =>
        \A p \in Permutations(DOMAIN txList) :
            aggregate(ZeroStats(reportDays), [k \in DOMAIN txList |-> txList[p[k]]],
                      PeriodStart, reportDays) = Stats

-----------------------------------------------------------------------------
(* C5 *)

\* C5: when every fetch succeeded and no transaction came back, the run ends
\* signalling EmptyResultError, neither panicking nor reporting; when
\* transactions came back and none passes the filter, it ends in a report
\* whose sums are all zero.
C5_EmptyResult ==
    /\ (pc \in {"done", "panic"} /\ txList = <<>>) =>
           (pc # "panic" /\ out.printed = "EmptyResultError")
    /\ (pc \in {"done", "panic"} /\ txList # <<>>
          /\ \A k \in DOMAIN txList : ~Accepted(txList[k])) =>
           /\ pc = "done"
           /\ out.printed = "report"
           /\ out.total = 0
           /\ \A d \in DOMAIN out.days : out.days[d].coins = 0
           /\ \A h \in DOMAIN out.hours : out.hours[h].coins = 0

-----------------------------------------------------------------------------
(* C6 *)

\* C6: no line of the report divides by zero; with no time elapsed in the
\* current day or hour, that line's rate is 0 and it has no projection.
C6_NoZeroDivisor ==
    (pc = "done") =>
        /\ \A i \in DOMAIN out.days :
              /\ out.days[i].divisor.num # 0
              /\ out.days[i].rate.kind = "finite"
        /\ \A i \in DOMAIN out.hours :
              /\ out.hours[i].divisor.num # 0
              /\ out.hours[i].rate.kind = "finite"
        /\ (Hour(now) = 0 /\ Minute(now) = 0) =>
              /\ out.days[reportDays - 1].rate = FDiv(0, Whole(1))
              /\ ~out.days[reportDays - 1].projected
        /\ (Minute(now) = 0 /\ Second(now) = 0) =>
              /\ out.hours[Hour(now)].rate = FDiv(0, Whole(1))
              /\ ~out.hours[Hour(now)].projected

-----------------------------------------------------------------------------
(* C7 *)

\* C7: the time printed as that of the first transaction is the least
\* timeReceived of the whole list.
C7_FirstIsEarliest ==
    (pc = "done") =>
        out.first = Min({txList[k].TimeReceived : k \in DOMAIN txList})

-----------------------------------------------------------------------------
(* C8 *)

\* C8: the deduped wallet list holds every distinct name of the arguments once
\* and nothing else; each name is fetched at most once, in the list's order,
\* and once every fetch has returned each distinct name was fetched exactly
\* once.
C8_WalletsNormalized ==
    /\ pc \in {"fetch", "loop", "done", "panic", "exit2"} =>
          /\ NoDuplicates(wallets)
          /\ Range(wallets) = Range(args)
          /\ Len(requests) <= Len(wallets)
          /\ \A k \in DOMAIN requests : requests[k] = wallets[k]
    /\ pc \in {"loop", "done", "panic"} =>
          \A w \in Range(args) :
              Cardinality({k \in DOMAIN requests : requests[k] = w}) = 1

\* a name given twice and another one, both fetched, the report printed
C8_Witness ==
    /\ pc = "done"
    /\ ~NoDuplicates(args)
    /\ Len(wallets) < Len(args)
    /\ Len(requests) = Cardinality(Range(args))

-----------------------------------------------------------------------------
(* C9, C10: under SpecStat *)

\* C9: once a StatData has recorded, lastBlock >= firstBlock and the divisor
\* of roughPercent, lastBlock - firstBlock + 1, is at least 1; roughPercent of
\* a StatData that recorded nothing is 0 and divides nothing.
C9_SpanInvariant ==
    /\ reportStats.blocks > 0 =>
          /\ reportStats.lastBlock >= reportStats.firstBlock
          /\ roughPercent(reportStats).den >= 1
    /\ (out.printed = "percent" /\ out.blocks = 0) =>
          /\ ~out.percent.divided
          /\ out.percent.num = 0

\* roughPercent was printed for the StatData when it had recorded nothing,
\* and it has since recorded heights downwards, 0 last
C9_Witness ==
    /\ pc = "stat"
    /\ out.printed = "percent"
    /\ out.blocks = 0
    /\ Len(txList) = 3
    /\ txList[1].Blockheight > txList[2].Blockheight
    /\ txList[3].Blockheight = 0
    /\ reportStats.blocks = 3

\* C10: once a StatData has recorded, firstBlock is the least and lastBlock
\* the greatest block height recorded.
C10_MinMax ==
    (pc = "stat" /\ txList # <<>>) =>
        /\ reportStats.firstBlock = Min({txList[k].Blockheight : k \in DOMAIN txList})
        /\ reportStats.lastBlock = Max({txList[k].Blockheight : k \in DOMAIN txList})

====
